---- MODULE Spec2Model ----
(***************************************************************************)
(* A model of stats.py: the translation-statistics driver.  main() checks  *)
(* its two external tools, parses the language list, reads the package     *)
(* list, creates the source directory and then runs process_package for    *)
(* every package in list order.                                            *)
(*                                                                         *)
(* Text is modelled as a sequence of one-character strings, so that        *)
(* strip, startswith, split and join are computed as Python computes them. *)
(* Package names are literal names (the Debian alphabet): the glob         *)
(* "<name>*" is then exactly a prefix match on the entries of source_dir.  *)
(***************************************************************************)
EXTENDS Integers, Sequences, FiniteSets, TLC

VARIABLES
    pc,            \* position of the single thread of control
    exit_code,     \* NotExited until the process ends, then 0, 1 or 2
    dtu_version,   \* the installed deepin-translation-utils: its release
                   \* and what `-V` prints (release <<>>: prints no version)
    apt_present,   \* whether `apt --version` succeeds on this machine
    lang_arg,      \* args.languages
    package_file,  \* args.package_file: readable, lines
    source_dir,    \* the destination directory: status and entries
    languages,     \* main's languages
    packages,      \* main's packages
    i,             \* 1-based index of the package the loop is at
    st,            \* per list entry: how far process_package got
    source_path,   \* process_package's source_path
    output,        \* process_package's output (stdout of the stats tool)
    cmds,          \* external commands run so far, in order
    stdout,        \* lines printed to standard output
    stderr         \* messages printed to standard error

vars == <<pc, exit_code, dtu_version, apt_present, lang_arg, package_file,
          source_dir, languages, packages, i, st, source_path, output,
          cmds, stdout, stderr>>

(***************************************************************************)
(* Bounds of the model.                                                    *)
(***************************************************************************)
MaxFileLines == 3   \* lines of the package file in the pipeline model
MaxLineLen == 2     \* characters per line in the reader model
MaxReaderLines == 2 \* lines of the package file in the reader model
MaxOut == 5         \* characters of stats-tool output in the reporter model
MaxDigits == 2      \* digits per version component in the version model

(***************************************************************************)
(* Python string and list primitives.                                      *)
(***************************************************************************)
Whitespace == {" ", "\n"}

RECURSIVE lstrip(_)
lstrip(s) ==
    IF s # <<>> /\ Head(s) \in Whitespace THEN lstrip(Tail(s)) ELSE s

RECURSIVE rstrip(_)
rstrip(s) ==
    IF s # <<>> /\ s[Len(s)] \in Whitespace
    THEN rstrip(SubSeq(s, 1, Len(s) - 1))
    ELSE s

strip(s) == rstrip(lstrip(s))

startswith(s, prefix) ==
    /\ Len(prefix) <= Len(s)
    /\ SubSeq(s, 1, Len(prefix)) = prefix

\* s.split(sep) for a one-character sep: always at least one field.
RECURSIVE split(_, _)
split(s, sep) ==
    IF \A k \in 1..Len(s) : s[k] # sep
    THEN <<s>>
    ELSE LET k == CHOOSE j \in 1..Len(s) :
                      s[j] = sep /\ \A h \in 1..(j - 1) : s[h] # sep
         IN  <<SubSeq(s, 1, k - 1)>> \o split(SubSeq(s, k + 1, Len(s)), sep)

\* sep.join(parts)
RECURSIVE join(_, _)
join(sep, parts) ==
    IF parts = <<>> THEN <<>>
    ELSE IF Len(parts) = 1 THEN parts[1]
    ELSE parts[1] \o sep \o join(sep, Tail(parts))

\* Python truthiness of a string or list: `not x`.
is_empty(x) == x = <<>>

(***************************************************************************)
(* check_dependencies: the version gate.  In a version output the          *)
(* character "N" stands for the literal "deepin-translation-utils "        *)
(* (the name and the space after it) that the pattern begins with.         *)
(***************************************************************************)
DigitValue ==
    [c \in {"0", "1", "2", "3", "4", "5", "6", "7", "8", "9"} |->
        CASE c = "0" -> 0 [] c = "1" -> 1 [] c = "2" -> 2 [] c = "3" -> 3
          [] c = "4" -> 4 [] c = "5" -> 5 [] c = "6" -> 6 [] c = "7" -> 7
          [] c = "8" -> 8 [] c = "9" -> 9]

\* Length of the longest run of digits of s that starts at position k: (\d+).
RECURSIVE digit_run(_, _)
digit_run(s, k) ==
    IF k <= Len(s) /\ s[k] \in DOMAIN DigitValue
    THEN 1 + digit_run(s, k + 1)
    ELSE 0

\* Whether r'deepin-translation-utils (\d+)\.(\d+)\.(\d+)' matches at position k.
matches_at(s, k) ==
    LET a  == k + 1
        n1 == digit_run(s, a)
        b  == a + n1 + 1
        n2 == digit_run(s, b)
        c  == b + n2 + 1
        n3 == digit_run(s, c)
    IN  /\ k <= Len(s) /\ s[k] = "N"
        /\ n1 >= 1 /\ a + n1 <= Len(s) /\ s[a + n1] = "."
        /\ n2 >= 1 /\ b + n2 <= Len(s) /\ s[b + n2] = "."
        /\ n3 >= 1

\* The three groups of the match at position k, as digit strings.
groups_at(s, k) ==
    LET a  == k + 1
        n1 == digit_run(s, a)
        b  == a + n1 + 1
        n2 == digit_run(s, b)
        c  == b + n2 + 1
        n3 == digit_run(s, c)
    IN  <<SubSeq(s, a, a + n1 - 1),
          SubSeq(s, b, b + n2 - 1),
          SubSeq(s, c, c + n3 - 1)>>

\* re.search: the groups of the leftmost match, or <<>> when nothing matches.
re_search(s) ==
    IF \E k \in 1..Len(s) : matches_at(s, k)
    THEN groups_at(s, CHOOSE k \in 1..Len(s) :
                          matches_at(s, k)
                          /\ \A h \in 1..(k - 1) : ~matches_at(s, h))
    ELSE <<>>

\* int() of a string of decimal digits.
RECURSIVE to_int(_)
to_int(d) ==
    IF d = <<>> THEN 0
    ELSE 10 * to_int(SubSeq(d, 1, Len(d) - 1)) + DigitValue[d[Len(d)]]

\* A comparison that is wrong: less in any one component.
any_component_less(v, w) == v[1] < w[1] \/ v[2] < w[2] \/ v[3] < w[3]

\* Python's `<` on two 3-tuples of integers.
tuple_less(v, w) ==
    \/ v[1] < w[1]
    \/ v[1] = w[1] /\ v[2] < w[2]
    \/ v[1] = w[1] /\ v[2] = w[2] /\ v[3] < w[3]

MinMajor == 0
MinMinor == 4
MinPatch == 0
MinVersion == <<MinMajor, MinMinor, MinPatch>>

\* version = (major, minor, patch) of a match.
version_of(match) == <<to_int(match[1]), to_int(match[2]), to_int(match[3])>>

\* The version gate refuses: `if version < (0, 4, 0)`.
version_too_low(version) == tuple_less(version, MinVersion)

(***************************************************************************)
(* read_package_list: the list comprehension over the file's lines.        *)
(***************************************************************************)
\* The condition of the comprehension: which lines are kept.
keeps_line(line) == ~is_empty(strip(line)) /\ ~startswith(line, <<"#">>)

RECURSIVE read_package_list(_)
read_package_list(f) ==
    IF f = <<>> THEN <<>>
    ELSE IF keeps_line(Head(f))
         THEN <<strip(Head(f))>> \o read_package_list(Tail(f))
         ELSE read_package_list(Tail(f))

\* languages = [lang.strip() for lang in args.languages.split(',') if lang.strip()]
RECURSIVE strip_nonempty(_)
strip_nonempty(parts) ==
    IF parts = <<>> THEN <<>>
    ELSE IF ~is_empty(strip(Head(parts)))
         THEN <<strip(Head(parts))>> \o strip_nonempty(Tail(parts))
         ELSE strip_nonempty(Tail(parts))

parse_languages(arg) == strip_nonempty(split(arg, ","))

(***************************************************************************)
(* The source directory.  An entry has a name and is a directory or not.   *)
(***************************************************************************)
Dir(name) == [name |-> name, is_dir |-> TRUE]
File(name) == [name |-> name, is_dir |-> FALSE]

\* A glob that is wrong: the pattern without its trailing "*".
glob_exact(entries, package_name) == {e \in entries : e.name = package_name}

\* source_dir.glob(f"{package_name}*"): the entries whose name begins with it.
glob(entries, package_name) ==
    {e \in entries : startswith(e.name, package_name)}

\* download_source_package's existing_dirs.
existing_dirs(entries, package_name) == glob(entries, package_name)

\* find_source_directory's matching_dirs.
matching_dirs(entries, package_name) ==
    {e \in glob(entries, package_name) : e.is_dir}

(***************************************************************************)
(* filter_translation_lines.                                               *)
(***************************************************************************)
\* A row test that is wrong: a "|" anywhere in the line.
is_table_row_anywhere(line) == \E k \in 1..Len(line) : line[k] = "|"

is_table_row(line) == startswith(line, <<"|">>)

filter_translation_lines(out) ==
    join(<<"\n">>, SelectSeq(split(out, "\n"), is_table_row))

\* A report that is wrong: the filtered output is printed even when empty.
report_line_no_fallback(out, langs) ==
    [kind |-> "table", text |-> filter_translation_lines(out)]

\* What process_package prints for the output of a successful stats run.
report_line(out, langs) ==
    LET filtered_output == filter_translation_lines(out)
    IN  IF ~is_empty(strip(filtered_output))
        THEN [kind |-> "table", text |-> filtered_output]
        ELSE [kind |-> "notfound", text |-> join(<<",", " ">>, langs)]

(***************************************************************************)
(* The inputs of the pipeline model.                                       *)
(***************************************************************************)
\* Sequences over S of length at most n.
SeqUpTo(S, n) == UNION {[1..k -> S] : k \in 0..n}

\* Lines of a package file: blank, a comment, the package "a" with trailing
\* whitespace, and the package "ab" (whose name extends "a").
PipelineLines == {<<>>, <<"#", "a">>, <<"a", " ">>, <<"a", "b">>}

Unreadable == [readable |-> FALSE, lines |-> <<>>]
Readable(lines) == [readable |-> TRUE, lines |-> lines]

PipelineFiles(n) ==
    {Unreadable} \cup {Readable(f) : f \in SeqUpTo(PipelineLines, n)}

\* --languages: "t, c," (two languages) and " ," (none).
PipelineLanguageArgs == {<<"t", ",", " ", "c", ",">>, <<" ", ",">>}

NotInstalled == [installed |-> FALSE, release |-> <<>>, stdout |-> <<>>]
Installed(release, version_output) ==
    [installed |-> TRUE, release |-> release, stdout |-> version_output]

\* `deepin-translation-utils -V`: not installed, unparsable output,
\* "deepin-translation-utils 0.1.4" and "deepin-translation-utils 0.4.0-0-g".
PipelineVersions ==
    {NotInstalled,
     Installed(<<>>, <<"x">>),
     Installed(<<<<"0">>, <<"1">>, <<"4">>>>,
               <<"N", "0", ".", "1", ".", "4", "\n">>),
     Installed(<<<<"0">>, <<"4">>, <<"0">>>>,
               <<"N", "0", ".", "4", ".", "0", "-", "0", "-", "g", "\n">>)}

\* The source directory before the run: absent, impossible to create, or
\* present with what an earlier run left in it.
PipelineTrees ==
    {{}, {File(<<"a", "_">>)}, {Dir(<<"a", "-">>)}, {Dir(<<"a", "b", "-">>)}}

PipelineSourceDirs ==
    {[status |-> "absent", entries |-> {}],
     [status |-> "blocked", entries |-> {}]}
    \cup {[status |-> "exists", entries |-> t] : t \in PipelineTrees}

\* Standard output of a successful `deepin-translation-utils stats` run.
PipelineStatsOutputs ==
    {<<>>,
     <<"x", "\n", " ", "|">>,
     <<"|", "a", "\n", "x", "\n", "|", "b", "\n">>}

\* What a successful `apt source <name>` unpacks: the package's own tree, or
\* the tree of a differently named source package.
AptUnpacked(package_name) ==
    {{File(package_name \o <<"_">>), Dir(package_name \o <<"-">>)},
     {File(<<"z", "_">>), Dir(<<"z", "-">>)}}

\* What a failed `apt source <name>` leaves behind: nothing, or the
\* downloaded files without the unpacked tree.
AptLeftovers(package_name) == {{}, {File(package_name \o <<"_">>)}}

(***************************************************************************)
(* The state after construction: the process has started, nothing has run. *)
(***************************************************************************)
NotExited == 0 - 1

Locals ==
    /\ pc = "parse_args"
    /\ exit_code = NotExited
    /\ languages = <<>>
    /\ packages = <<>>
    /\ i = 0
    /\ st = <<>>
    /\ source_path = <<>>
    /\ output = <<>>
    /\ cmds = <<>>
    /\ stdout = <<>>
    /\ stderr = <<>>

Init ==
    /\ apt_present \in BOOLEAN
    /\ dtu_version \in PipelineVersions
    /\ lang_arg \in PipelineLanguageArgs
    /\ package_file \in PipelineFiles(MaxFileLines)
    /\ source_dir \in PipelineSourceDirs
    /\ Locals

env == <<dtu_version, apt_present, lang_arg, package_file>>
loop_locals == <<languages, packages, i, st, source_path, output>>

Run(cmd, arg) == [cmd |-> cmd, arg |-> arg, idx |-> i]
Line(kind, text) == [kind |-> kind, text |-> text]

\* A fatal error that is wrong: sys.exit() without the status.
FatalWithoutCode(message) ==
    /\ stderr' = Append(stderr, message)
    /\ exit_code' = 0
    /\ pc' = "exited"

\* print(..., file=sys.stderr); sys.exit(1)
Fatal(message) ==
    /\ stderr' = Append(stderr, message)
    /\ exit_code' = 1
    /\ pc' = "exited"

(***************************************************************************)
(* main                                                                    *)
(***************************************************************************)
\* parser.parse_args(): argparse ends the process with code 2 on a bad
\* command line.
ParseArgs ==
    /\ pc = "parse_args"
    /\ \E ok \in BOOLEAN :
          IF ok
          THEN pc' = "check_apt" /\ UNCHANGED <<exit_code, stderr>>
          ELSE /\ stderr' = Append(stderr, "usage")
               /\ exit_code' = 2
               /\ pc' = "exited"
    /\ UNCHANGED <<env, source_dir, loop_locals, cmds, stdout>>

\* check_dependencies, first half: apt --version
CheckApt ==
    /\ pc = "check_apt"
    /\ cmds' = Append(cmds, Run("apt --version", <<>>))
    /\ IF apt_present
       THEN pc' = "check_dtu" /\ UNCHANGED <<exit_code, stderr>>
       ELSE Fatal("apt not found")
    /\ UNCHANGED <<env, source_dir, loop_locals, stdout>>

\* check_dependencies, second half: deepin-translation-utils -V
CheckDtu ==
    /\ pc = "check_dtu"
    /\ cmds' = Append(cmds, Run("deepin-translation-utils -V", <<>>))
    /\ IF ~dtu_version.installed
       THEN Fatal("deepin-translation-utils not found")
       ELSE LET match == re_search(strip(dtu_version.stdout))
            IN  IF is_empty(match)
                THEN Fatal("version not parsable")
                ELSE IF version_too_low(version_of(match))
                     THEN Fatal("version too low")
                     ELSE pc' = "languages" /\ UNCHANGED <<exit_code, stderr>>
    /\ UNCHANGED <<env, source_dir, loop_locals, stdout>>

ParseLanguages ==
    /\ pc = "languages"
    /\ languages' = parse_languages(lang_arg)
    /\ IF is_empty(languages')
       THEN Fatal("language list empty")
       ELSE pc' = "read" /\ UNCHANGED <<exit_code, stderr>>
    /\ UNCHANGED <<env, source_dir, packages, i, st, source_path, output,
                   cmds, stdout>>

\* A reader step that is wrong: the directory is created before the list
\* is checked.
ReadPackagesAfterMkdir ==
    /\ pc = "read"
    /\ package_file.readable
    /\ source_dir.status # "blocked"
    /\ source_dir' = [source_dir EXCEPT !.status = "exists"]
    /\ packages' = read_package_list(package_file.lines)
    /\ st' = [k \in 1..Len(packages') |-> "PENDING"]
    /\ IF is_empty(packages')
       THEN Fatal("package list empty") /\ UNCHANGED i
       ELSE i' = 1 /\ pc' = "loop" /\ UNCHANGED <<exit_code, stderr>>
    /\ UNCHANGED <<env, languages, source_path, output, cmds, stdout>>

ReadPackages ==
    /\ pc = "read"
    /\ IF ~package_file.readable
       THEN Fatal("package file unreadable") /\ UNCHANGED <<packages, st>>
       ELSE /\ packages' = read_package_list(package_file.lines)
            /\ st' = [k \in 1..Len(packages') |-> "PENDING"]
            /\ IF is_empty(packages')
               THEN Fatal("package list empty")
               ELSE pc' = "mkdir" /\ UNCHANGED <<exit_code, stderr>>
    /\ UNCHANGED <<env, source_dir, languages, i, source_path, output,
                   cmds, stdout>>

\* source_dir.mkdir(exist_ok=True): an error here is not caught, the
\* interpreter prints the traceback and ends with code 1.
Mkdir ==
    /\ pc = "mkdir"
    /\ IF source_dir.status = "blocked"
       THEN /\ stderr' = Append(stderr, "Traceback")
            /\ exit_code' = 1
            /\ pc' = "exited"
            /\ UNCHANGED <<source_dir, i>>
       ELSE /\ source_dir' = [source_dir EXCEPT !.status = "exists"]
            /\ i' = 1
            /\ pc' = "loop"
            /\ UNCHANGED <<exit_code, stderr>>
    /\ UNCHANGED <<env, languages, packages, st, source_path, output,
                   cmds, stdout>>

\* A loop bound that is wrong: the last package is left out.
loop_done_early(k, pkgs) == k >= Len(pkgs)

\* `for package_name in packages` has run out of packages.
loop_done(k, pkgs) == k > Len(pkgs)

\* The for loop ends: main returns and the process ends with code 0.
Finish ==
    /\ pc = "loop"
    /\ loop_done(i, packages)
    /\ exit_code' = 0
    /\ pc' = "exited"
    /\ UNCHANGED <<env, source_dir, loop_locals, cmds, stdout, stderr>>

(***************************************************************************)
(* process_package(packages[i], source_dir, languages)                     *)
(***************************************************************************)
\* A return that is wrong: a package that did not get reported is tried again.
return_and_retry(state) ==
    /\ st' = [st EXCEPT ![i] = state]
    /\ i' = IF state = "REPORTED" THEN i + 1 ELSE i
    /\ pc' = "loop"

\* process_package returns: the loop goes on with the next package.
Return(state) ==
    /\ st' = [st EXCEPT ![i] = state]
    /\ i' = i + 1
    /\ pc' = "loop"

\* The section's header and the blank line after it.
Header ==
    /\ pc = "loop"
    /\ ~loop_done(i, packages)
    /\ stdout' = stdout \o <<Line("header", packages[i]), Line("blank", <<>>)>>
    /\ st' = [st EXCEPT ![i] = "FETCHING"]
    /\ pc' = "download"
    /\ UNCHANGED <<env, source_dir, languages, packages, i, source_path,
                   output, cmds, exit_code, stderr>>

\* download_source_package found the source: no download.
SkipDownload ==
    /\ pc = "download"
    /\ existing_dirs(source_dir.entries, packages[i]) # {}
    /\ st' = [st EXCEPT ![i] = "FETCHED"]
    /\ pc' = "find"
    /\ UNCHANGED <<env, source_dir, languages, packages, i, source_path,
                   output, cmds, stdout, exit_code, stderr>>

\* download_source_package runs `apt source`, which succeeds.
DownloadOk ==
    /\ pc = "download"
    /\ existing_dirs(source_dir.entries, packages[i]) = {}
    /\ cmds' = Append(cmds, Run("apt source", packages[i]))
    /\ \E unpacked \in AptUnpacked(packages[i]) :
          source_dir' = [source_dir EXCEPT !.entries = @ \cup unpacked]
    /\ st' = [st EXCEPT ![i] = "FETCHED"]
    /\ pc' = "find"
    /\ UNCHANGED <<env, languages, packages, i, source_path, output,
                   stdout, exit_code, stderr>>

\* download_source_package runs `apt source`, which fails: the message and
\* a blank line are printed and process_package returns.
DownloadFails ==
    /\ pc = "download"
    /\ existing_dirs(source_dir.entries, packages[i]) = {}
    /\ cmds' = Append(cmds, Run("apt source", packages[i]))
    /\ \E left \in AptLeftovers(packages[i]) :
          source_dir' = [source_dir EXCEPT !.entries = @ \cup left]
    /\ stdout' = stdout \o <<Line("fetch failed", <<>>), Line("blank", <<>>)>>
    /\ Return("FETCH_FAILED")
    /\ UNCHANGED <<env, languages, packages, source_path, output,
                   exit_code, stderr>>

\* find_source_directory finds a directory: the first one the file system
\* enumerates, which may be any of the matching ones.
FindDirectory ==
    /\ pc = "find"
    /\ \E d \in matching_dirs(source_dir.entries, packages[i]) :
          source_path' = d.name
    /\ pc' = "stats"
    /\ UNCHANGED <<env, source_dir, languages, packages, i, st, output,
                   cmds, stdout, exit_code, stderr>>

\* find_source_directory returns "": the error and a blank line are printed.
NoDirectory ==
    /\ pc = "find"
    /\ matching_dirs(source_dir.entries, packages[i]) = {}
    /\ stdout' = stdout \o <<Line("no source directory", packages[i]),
                             Line("blank", <<>>)>>
    /\ Return("NO_SOURCE_DIR")
    /\ UNCHANGED <<env, source_dir, languages, packages, source_path, output,
                   cmds, exit_code, stderr>>

\* get_translation_stats succeeds with some output.
StatsOk ==
    /\ pc = "stats"
    /\ cmds' = Append(cmds, Run("deepin-translation-utils stats",
                                source_path \o <<" ">> \o join(<<",">>, languages)))
    /\ \E out \in PipelineStatsOutputs : output' = out
    /\ pc' = "report"
    /\ UNCHANGED <<env, source_dir, languages, packages, i, st, source_path,
                   stdout, exit_code, stderr>>

\* get_translation_stats fails: the message and a blank line are printed.
StatsFails ==
    /\ pc = "stats"
    /\ cmds' = Append(cmds, Run("deepin-translation-utils stats",
                                source_path \o <<" ">> \o join(<<",">>, languages)))
    /\ stdout' = stdout \o <<Line("stats failed", <<>>), Line("blank", <<>>)>>
    /\ Return("STATS_FAILED")
    /\ UNCHANGED <<env, source_dir, languages, packages, source_path, output,
                   exit_code, stderr>>

\* The filtered table, or the "not found" message, and a blank line.
Report ==
    /\ pc = "report"
    /\ stdout' = stdout \o <<report_line(output, languages), Line("blank", <<>>)>>
    /\ Return("REPORTED")
    /\ UNCHANGED <<env, source_dir, languages, packages, source_path, output,
                   cmds, exit_code, stderr>>

Next ==
    \/ ParseArgs
    \/ CheckApt
    \/ CheckDtu
    \/ ParseLanguages
    \/ ReadPackages
    \/ Mkdir
    \/ Finish
    \/ Header
    \/ SkipDownload
    \/ DownloadOk
    \/ DownloadFails
    \/ FindDirectory
    \/ NoDirectory
    \/ StatsOk
    \/ StatsFails
    \/ Report

Spec == Init /\ [][Next]_vars

(***************************************************************************)
(* The version gate on its own: the process is about to run               *)
(* `deepin-translation-utils -V`, which prints a release in any form.      *)
(***************************************************************************)
VersionDigits == {"0", "1", "4"}
Components(n) == SeqUpTo(VersionDigits, n) \ {<<>>}
Dotted(a, b, c) == a \o <<".">> \o b \o <<".">> \o c

\* How an installation prints its release a.b.c: plainly, with a git
\* suffix, or after other text; or it prints no release at all: no name
\* before the numbers, or two numbers only.
VersionForms == {"plain", "suffix", "later", "nameless", "short"}

VersionOutput(form, a, b, c) ==
    CASE form = "plain" ->
            Installed(<<a, b, c>>, <<"N">> \o Dotted(a, b, c) \o <<"\n">>)
      [] form = "suffix" ->
            Installed(<<a, b, c>>, <<"N">> \o Dotted(a, b, c) \o <<"-", "0", "-", "g">>)
      [] form = "later" ->
            Installed(<<a, b, c>>, <<"x", "N">> \o Dotted(a, b, c))
      [] form = "nameless" ->
            Installed(<<>>, Dotted(a, b, c))
      [] form = "short" ->
            Installed(<<>>, <<"N">> \o a \o <<".">> \o b \o c)

GoodVersion ==
    Installed(<<<<"0">>, <<"4">>, <<"0">>>>,
              <<"N", "0", ".", "4", ".", "0", "-", "0", "-", "g", "\n">>)
TwoLanguages == <<"t", ",", " ", "c", ",">>
AptVersionRun == [cmd |-> "apt --version", arg |-> <<>>, idx |-> 0]
DtuVersionRun == [cmd |-> "deepin-translation-utils -V", arg |-> <<>>, idx |-> 0]

InitVersion ==
    /\ apt_present = TRUE
    /\ \/ dtu_version = NotInstalled
       \/ \E form \in VersionForms : \E a, b, c \in Components(MaxDigits) :
             dtu_version = VersionOutput(form, a, b, c)
    /\ lang_arg = TwoLanguages
    /\ package_file = Readable(<<<<"a">>>>)
    /\ source_dir = [status |-> "absent", entries |-> {}]
    /\ pc = "check_dtu"
    /\ exit_code = NotExited
    /\ languages = <<>>
    /\ packages = <<>>
    /\ i = 0
    /\ st = <<>>
    /\ source_path = <<>>
    /\ output = <<>>
    /\ cmds = <<AptVersionRun>>
    /\ stdout = <<>>
    /\ stderr = <<>>

SpecVersion == InitVersion /\ [][CheckDtu]_vars

(***************************************************************************)
(* The reader on its own: the process is about to read a package file of   *)
(* any lines over the characters "a", "#" and " ".                         *)
(***************************************************************************)
ReaderChars == {"a", "#", " "}
ReaderLines(len) == SeqUpTo(ReaderChars, len)
ReaderFiles(n, len) ==
    {Unreadable} \cup {Readable(f) : f \in SeqUpTo(ReaderLines(len), n)}

InitReader ==
    /\ apt_present = TRUE
    /\ dtu_version = GoodVersion
    /\ lang_arg = TwoLanguages
    /\ package_file \in ReaderFiles(MaxReaderLines, MaxLineLen)
    /\ source_dir = [status |-> "absent", entries |-> {}]
    /\ pc = "read"
    /\ exit_code = NotExited
    /\ languages = parse_languages(TwoLanguages)
    /\ packages = <<>>
    /\ i = 0
    /\ st = <<>>
    /\ source_path = <<>>
    /\ output = <<>>
    /\ cmds = <<AptVersionRun, DtuVersionRun>>
    /\ stdout = <<>>
    /\ stderr = <<>>

SpecReader == InitReader /\ [][ReadPackages]_vars

(***************************************************************************)
(* The reporter on its own: process_package has fetched package "a", and   *)
(* the stats tool has succeeded with any output over "|", "x", " " and     *)
(* the newline.                                                            *)
(***************************************************************************)
OutputChars == {"|", "x", " ", "\n"}
StatsOutputs(n) == SeqUpTo(OutputChars, n)

InitReporter ==
    /\ apt_present = TRUE
    /\ dtu_version = GoodVersion
    /\ lang_arg = TwoLanguages
    /\ package_file = Readable(<<<<"a">>>>)
    /\ source_dir = [status |-> "exists", entries |-> {Dir(<<"a", "-">>)}]
    /\ pc = "report"
    /\ exit_code = NotExited
    /\ languages = parse_languages(TwoLanguages)
    /\ packages = <<<<"a">>>>
    /\ i = 1
    /\ st = <<"FETCHED">>
    /\ source_path = <<"a", "-">>
    /\ output \in StatsOutputs(MaxOut)
    /\ cmds = <<AptVersionRun, DtuVersionRun,
                [cmd |-> "deepin-translation-utils stats",
                 arg |-> <<"a", "-", " ", "t", ",", "c">>, idx |-> 1]>>
    /\ stdout = <<Line("header", <<"a">>), Line("blank", <<>>)>>
    /\ stderr = <<>>

SpecReporter == InitReporter /\ [][Report]_vars

(***************************************************************************)
(* Vocabulary of the properties.  These are stated on the inputs and on    *)
(* what the process printed and ran, not with the operators above.         *)
(***************************************************************************)
Exited == pc = "exited"

Blank(line) == \A k \in 1..Len(line) : line[k] \in Whitespace

\* The number a string of digits denotes.
DigitsNumber(d) ==
    LET n == Len(d)
        partial[k \in 0..n] ==
            IF k = 0 THEN 0 ELSE 10 * partial[k - 1] + DigitValue[d[k]]
    IN  partial[n]

\* Release r is 0.4.0 or later: major decides, then minor, then patch.
AtLeastMinimum(r) ==
    LET major == DigitsNumber(r[1])
        minor == DigitsNumber(r[2])
        patch == DigitsNumber(r[3])
    IN  \/ major > 0
        \/ major = 0 /\ minor > 4
        \/ major = 0 /\ minor = 4 /\ patch >= 0

DependencyInvalid ==
    \/ ~apt_present
    \/ ~dtu_version.installed
    \/ dtu_version.release = <<>>
    \/ ~AtLeastMinimum(dtu_version.release)

NoLanguageGiven == \A k \in 1..Len(lang_arg) : lang_arg[k] \in Whitespace \cup {","}

\* A line that names a package: not blank and not beginning with "#".
PackageLine(line) == ~Blank(line) /\ line[1] # "#"

NoPackageGiven ==
    \/ ~package_file.readable
    \/ \A k \in 1..Len(package_file.lines) : ~PackageLine(package_file.lines[k])

StartupInvalid == DependencyInvalid \/ NoLanguageGiven \/ NoPackageGiven

DirectoryBlocked == source_dir.status = "blocked"

\* The run got past the command line and all startup validations.
StartupPassed == Exited /\ exit_code # 2 /\ ~StartupInvalid

BodyKinds == {"fetch failed", "no source directory", "stats failed",
              "table", "notfound"}

IsHeader(line) == line.kind = "header"
HeaderNames(out) ==
    LET h == SelectSeq(out, IsHeader) IN [k \in 1..Len(h) |-> h[k].text]

RunsOf(cmd, k) == {n \in 1..Len(cmds) : cmds[n].cmd = cmd /\ cmds[n].idx = k}

C3_ReaderAsStated ==
    (pc # "read" /\ package_file.readable) =>
        /\ \A k \in 1..Len(packages) :
              packages[k] # <<>> /\ packages[k][1] # "#"
        /\ (\A k \in 1..Len(package_file.lines) :
               ~PackageLine(package_file.lines[k]))
           => (packages = <<>> /\ exit_code = 1)

\* C4: while download_source_package decides, an entry of the destination
\* directory whose name begins with the package name means success without
\* running `apt source`; `apt source` is run only when there is no such entry.
C4_SkipsExisting ==
    [][pc = "download" =>
          IF \E e \in source_dir.entries :
                /\ Len(e.name) >= Len(packages[i])
                /\ \A k \in 1..Len(packages[i]) : e.name[k] = packages[i][k]
          THEN cmds' = cmds /\ st'[i] = "FETCHED" /\ source_dir' = source_dir
          ELSE /\ Len(cmds') = Len(cmds) + 1
               /\ cmds'[Len(cmds')] =
                     [cmd |-> "apt source", arg |-> packages[i], idx |-> i]]_vars

\* A package taken as fetched, without any download, because of an entry
\* that belongs to a package with a longer name.
C4_Witness ==
    /\ pc = "find"
    /\ packages[i] = <<"a">>
    /\ RunsOf("apt source", i) = {}
    /\ source_dir.entries = {Dir(<<"a", "b", "-">>)}

\* The lines of a text, found from the positions of its newlines.
LineStarts(text) ==
    {p \in 1..(Len(text) + 1) : p = 1 \/ text[p - 1] = "\n"}
LineEnd(text, p) ==
    CHOOSE q \in p..(Len(text) + 1) :
        /\ q = Len(text) + 1 \/ text[q] = "\n"
        /\ \A h \in p..(q - 1) : text[h] # "\n"
LineFrom(text, p) == SubSeq(text, p, LineEnd(text, p) - 1)

\* The members of a set of positions, in increasing order.
Ascending(S) ==
    [k \in 1..Cardinality(S) |->
        CHOOSE p \in S : Cardinality({q \in S : q < p}) = k - 1]
LinesAt(text, S) ==
    LET order == Ascending(S) IN [k \in 1..Len(order) |-> LineFrom(text, order[k])]

\* The table rows of the stats tool's output: the lines that begin with "|".
RowStarts(text) == {p \in LineStarts(text) : p <= Len(text) /\ text[p] = "|"}
Rows(text) == LinesAt(text, RowStarts(text))

\* What the reporter printed for the package the loop has just left.
Outcome == stdout[Len(stdout) - 1]
Reported == pc = "loop" /\ i >= 2 /\ st[i - 1] = "REPORTED"

\* C5: when the stats tool's output holds K >= 1 table rows, the reporter
\* prints exactly these K lines, unchanged and in their order, and nothing
\* else of the output.
C5_PrintsTheRows ==
    (Reported /\ RowStarts(output) # {}) =>
        /\ Outcome.kind = "table"
        /\ LinesAt(Outcome.text, LineStarts(Outcome.text)) = Rows(output)

\* Two rows printed out of an output that also holds a line that is
\* neither blank nor a row.
C5_Witness ==
    /\ Reported
    /\ Cardinality(RowStarts(output)) = 2
    /\ \E p \in LineStarts(output) \ RowStarts(output) :
          ~Blank(LineFrom(output, p))
    /\ Outcome.kind = "table"

\* C6: when the stats tool succeeds, the "not found" message is printed
\* exactly when its output holds no table row; the message lists the
\* requested languages, in the order given, joined by ", "; and what is
\* printed for the package is never empty.
C6_NotFound ==
    Reported =>
        /\ Outcome.kind = "notfound" <=> RowStarts(output) = {}
        /\ Outcome.kind = "notfound" =>
              /\ Len(Outcome.text) = 3 * Len(languages) - 2
              /\ \A k \in 1..Len(languages) : Outcome.text[3 * k - 2] = languages[k][1]
              /\ \A k \in 1..(Len(languages) - 1) :
                    Outcome.text[3 * k - 1] = "," /\ Outcome.text[3 * k] = " "
        /\ ~Blank(Outcome.text)

\* The message printed for an output that is not empty but holds no row.
C6_Witness ==
    /\ Reported
    /\ ~Blank(output)
    /\ RowStarts(output) = {}
    /\ Outcome = [kind |-> "notfound", text |-> <<"t", ",", " ", "c">>]

Ended3 == {"FETCH_FAILED", "STATS_FAILED", "REPORTED"}
Ended4 == Ended3 \cup {"NO_SOURCE_DIR"}

Steps3 ==
    {<<"PENDING", "FETCHING">>, <<"FETCHING", "FETCH_FAILED">>,
     <<"FETCHING", "FETCHED">>, <<"FETCHED", "STATS_FAILED">>,
     <<"FETCHED", "REPORTED">>}
Steps4 == Steps3 \cup {<<"FETCHED", "NO_SOURCE_DIR">>}

\* Packages whose processing is over.
Processed == {k \in 1..Len(st) : k < i}

C8_SkipMeansDirectory ==
    (pc = "find" /\ RunsOf("apt source", i) = {}) =>
        \E e \in source_dir.entries :
            /\ e.is_dir
            /\ Len(e.name) >= Len(packages[i])
            /\ SubSeq(e.name, 1, Len(packages[i])) = packages[i]

\* C9: the version gate lets the process go on exactly when the utility
\* prints a release that is at least 0.4.0, comparing major, then minor,
\* then patch as numbers; otherwise (a lower release, or no release in the
\* output) the process ends with code 1.
C9_VersionGate ==
    (pc # "check_dtu" /\ dtu_version.installed) =>
        IF dtu_version.release # <<>>
           /\ AtLeastMinimum(dtu_version.release)
        THEN pc = "languages" /\ exit_code = NotExited /\ stderr = <<>>
        ELSE pc = "exited" /\ exit_code = 1 /\ Len(stderr) = 1

\* Release 0.10.0 is let through.
C9_Witness ==
    /\ pc = "languages"
    /\ dtu_version.release = <<<<"0">>, <<"1", "0">>, <<"0">>>>

StartupCommands == {"apt --version", "deepin-translation-utils -V"}
PackageCommands == {"apt source", "deepin-translation-utils stats"}
CommandsRun == {cmds[n].cmd : n \in 1..Len(cmds)}

\* C10: the dependency check, the language list, the package file, the
\* creation of the destination directory and the package loop come in this
\* order: a run that ends in a fatal startup error has printed no section,
\* has run neither `apt source` nor the stats command, and has left the
\* destination directory as it was.
C10_StartupFirst ==
    /\ [](/\ (Exited /\ (exit_code = 2 \/ StartupInvalid)) =>
                /\ CommandsRun \subseteq StartupCommands
                /\ stdout = <<>>
          /\ languages # <<>> =>
                (Len(cmds) >= 2 /\ cmds[1].cmd = "apt --version"
                 /\ cmds[2].cmd = "deepin-translation-utils -V")
          /\ packages # <<>> => languages # <<>>
          /\ (CommandsRun \cap PackageCommands # {} \/ stdout # <<>>) =>
                (packages # <<>> /\ source_dir.status = "exists"))
    /\ [][source_dir' # source_dir =>
             (~StartupInvalid /\ packages # <<>> /\ languages # <<>>
              /\ exit_code = NotExited)]_vars

\* A run ended by an empty package list: the directory is still absent.
C10_Witness ==
    /\ Exited /\ exit_code = 1
    /\ stderr = <<"package list empty">>
    /\ source_dir.status = "absent"
    /\ Len(cmds) = 2

====
